---- MODULE Spec2Model ----
(***************************************************************************)
(* Verified file move of scripts/backlog_maintainer_verification.py        *)
(* (class FileOperationVerifier).  One call of move_with_verification is   *)
(* a sequence of steps (pc); the filesystem primitives it calls            *)
(* (shutil.move, shutil.copy2, Path.mkdir, Path.unlink, open) are the      *)
(* environment: each may raise, and shutil.move may also return normally   *)
(* without having done what it reports (the BF_005 class of incident the   *)
(* module was written against).                                            *)
(*                                                                         *)
(* The scripts around it have specifications of their own over the same    *)
(* filesystem: auto_archive_completed.py (SpecAutoArchive),                *)
(* verify_backlog_archive.py (SpecVerifyArchive) and                       *)
(* migrate_archive_naming.py (SpecMigrate); SpecArchive is the verifier    *)
(* used through archive_with_verification.                                 *)
(***************************************************************************)
EXTENDS Integers, Sequences, FiniteSets, TLC

\* ---------------------------------------------------------------- bounds
MaxCalls == 2      \* calls of move_with_verification in one behaviour
MaxRuns == 52      \* runs of auto_archive_completed.py that save the log

\* ------------------------------------------------------------ filesystem
Paths == {"item", "archived"}
Dirs == {"items", "archive"}
Parent(p) == IF p = "item" THEN "items" ELSE "archive"

\* file contents are byte strings; <<>> is the 0-byte file
Contents == {<<>>, <<1>>, <<2>>}
NoFile == [exists |-> FALSE, is_file |-> FALSE, data |-> <<>>]
File(c) == [exists |-> TRUE, is_file |-> TRUE, data |-> c]
RegularFiles == {File(c) : c \in Contents}

\* a path that exists without being a regular file: a directory, whose
\* data (st_size is not 0) is its entry table
Directory == [exists |-> TRUE, is_file |-> FALSE, data |-> <<0>>]
Files == {NoFile, Directory} \cup RegularFiles

Exists(f, p) == f[p].exists
StSize(file) == Len(file.data)

None == <<>>
Truthy(x) == x # None

\* hashlib.sha256(...).hexdigest(): a non-empty string, injective on the
\* contents of the model
Checksum(c) == <<"sha256", c>>

\* backup file name: <source name>.<timestamp>.backup with a timestamp of
\* one second resolution; the calls of one behaviour fall into the same
\* second, so that a later backup of the same source reuses the name (a
\* backup left under another timestamp is never read or written again)
BackupNames == {<<p, "backup">> : p \in Paths}
BackupPath(source) == <<source, "backup">>

VARIABLES
    fs,                    \* Paths -> Files
    dirs,                  \* Dirs -> BOOLEAN, the directory exists
    backups,               \* BackupNames -> Files, content of .backlog_backups
    log_file,              \* content of scripts/verification_log.json
    enable_rollback,       \* self.enable_rollback
    operation_log,         \* self.operation_log
    error_log,             \* self.error_log
    verification_failures, \* self.verification_failures
    ncalls,                \* calls of move_with_verification started so far
    pc,                    \* position inside the current call
    call,                  \* arguments, locals and history of the current call
    moved_to,              \* history: paths still holding what a verified
                           \* move put there
    backlog_file,          \* Docs/Backlog/Backlog.md: the row of the item
    archiver,              \* auto_archive_completed.py: the last run
    auto_archive_log,      \* content of scripts/auto_archive_log.json
    nruns,                 \* history: runs saved by save_operation_log
    result,                \* verify_backlog_archive.py: the last result
    directory,             \* migrate_archive_naming.py: the directory
    migrator               \* migrate_archive_naming.py: the migration

vars == <<fs, dirs, backups, log_file, enable_rollback, operation_log,
          error_log, verification_failures, ncalls, pc, call, moved_to,
          backlog_file, archiver, auto_archive_log, nruns, result,
          directory, migrator>>

\* the variables of FileOperationVerifier and those of the other scripts
verifier == <<backups, log_file, enable_rollback, operation_log, error_log,
              verification_failures, ncalls, pc, call, moved_to>>
scripts == <<backlog_file, archiver, auto_archive_log, nruns, result,
             directory, migrator>>

fsvars == <<fs, dirs, backups>>
logvars == <<log_file, operation_log, error_log, verification_failures>>

\* -------------------------------------------------------------- logging
LogEntry(id, success) == [id |-> id, success |-> success]

LogData(ops, errs, vfs) ==
    [operations |-> ops, errors |-> errs, verification_failures |-> vfs]

\* _save_logs: open(log_file, 'w') and dump the in-memory lists of this
\* instance: the file is rewritten whole, whatever it held (lf)
SaveLogs(lf, ops, errs, vfs) == {LogData(ops, errs, vfs)}

\* --------------------------------------------------- primitives (results)
\* shutil.copy2(data -> target): the copy, or an exception (nothing or a
\* truncated file written), or a truncated file without exception
CopyResults(data, old) ==
    { [raised |-> FALSE, target |-> File(data)],
      [raised |-> FALSE, target |-> File(<<>>)],
      [raised |-> TRUE,  target |-> old],
      [raised |-> TRUE,  target |-> File(<<>>)] }

\* what shutil.move leaves when it does what it reports
GoodMove(from) == [raised |-> FALSE, src |-> NoFile, dst |-> from]

\* shutil.move(from -> to): it returns normally having left any state
\* behind (nothing, some regular file, or the moved entry at the target),
\* or raises with the source intact and the target untouched, truncated
\* or complete
MoveResults(from, to) ==
    { [raised |-> FALSE, src |-> s, dst |-> d] :
          s \in {NoFile, from}, d \in {NoFile, from} \cup RegularFiles }
    \cup
    { [raised |-> TRUE, src |-> from, dst |-> d] :
          d \in {to} \cup (IF from.is_file
                           THEN {File(<<>>), File(from.data)}
                           ELSE {from}) }

\* Path.unlink(): a directory cannot be unlinked
UnlinkResults(file) ==
    { [raised |-> TRUE, target |-> file] }
    \cup (IF file.is_file THEN {[raised |-> FALSE, target |-> NoFile]}
                          ELSE {})

\* _calculate_checksum: the digest, or None when the read fails (open()
\* of a directory always fails)
CalculateChecksumResults(file) ==
    IF file.is_file THEN {Checksum(file.data), None} ELSE {None}

\* ------------------------------------------------------- _create_backup
\* mutant: the copy is accepted without the size test
CreateBackupResults_NoSizeCheck(f, b, source) ==
    IF ~Exists(f, source)
    THEN {[backup_path |-> None, backups |-> b]}
    ELSE IF ~f[source].is_file
    THEN {[backup_path |-> None, backups |-> b]}
    ELSE LET backup_path == BackupPath(source)
         IN  { [backup_path |->
                   IF ~c.raised /\ c.target.exists
                   THEN backup_path ELSE None,
                backups |-> [b EXCEPT ![backup_path] = c.target]] :
                   c \in CopyResults(f[source].data, b[backup_path]) }

\* copy the source into the backup directory and accept the copy when it
\* exists with the size of the source; None when the copy raised or the
\* size check failed
CreateBackupResults(f, b, source) ==
    IF ~Exists(f, source)
    THEN {[backup_path |-> None, backups |-> b]}
    ELSE IF ~f[source].is_file
    THEN {[backup_path |-> None, backups |-> b]}  \* copy2 raises
    ELSE LET backup_path == BackupPath(source)
         IN  { [backup_path |->
                   IF /\ ~c.raised
                      /\ c.target.exists
                      /\ StSize(c.target) = StSize(f[source])
                   THEN backup_path ELSE None,
                backups |-> [b EXCEPT ![backup_path] = c.target]] :
                   c \in CopyResults(f[source].data, b[backup_path]) }

\* mutant: the existence test negated
BackupUsable_Inverted(b, backup_path) ==
    /\ Truthy(backup_path)
    /\ ~b[backup_path].exists

\* "backup_path and backup_path.exists()"
BackupUsable(b, backup_path) ==
    /\ Truthy(backup_path)
    /\ b[backup_path].exists

\* ------------------------------------------------ _verify_file_operation
\* mutant: the "source still exists" check left out
VerifyMoveResults_NoSourceCheck(f, source, dest, expected_checksum) ==
    IF ~Exists(f, dest) THEN {"destination_missing"}
    ELSE IF StSize(f[dest]) = 0 THEN {"destination_empty"}
    ELSE IF Truthy(expected_checksum)
         THEN { IF actual_checksum # expected_checksum
                THEN "checksum_mismatch" ELSE "ok" :
                    actual_checksum \in CalculateChecksumResults(f[dest]) }
         ELSE {"ok"}

\* mutant: the "source still exists" test negated
VerifyMoveResults_SourceCheckInverted(f, source, dest, expected_checksum) ==
    IF ~Exists(f, dest) THEN {"destination_missing"}
    ELSE IF ~Exists(f, source) THEN {"source_still_exists"}
    ELSE IF StSize(f[dest]) = 0 THEN {"destination_empty"}
    ELSE IF Truthy(expected_checksum)
         THEN { IF actual_checksum # expected_checksum
                THEN "checksum_mismatch" ELSE "ok" :
                    actual_checksum \in CalculateChecksumResults(f[dest]) }
         ELSE {"ok"}

\* mutant: the 0-byte test left out
VerifyMoveResults_NoEmptyCheck(f, source, dest, expected_checksum) ==
    IF ~Exists(f, dest) THEN {"destination_missing"}
    ELSE IF Exists(f, source) THEN {"source_still_exists"}
    ELSE IF Truthy(expected_checksum)
         THEN { IF actual_checksum # expected_checksum
                THEN "checksum_mismatch" ELSE "ok" :
                    actual_checksum \in CalculateChecksumResults(f[dest]) }
         ELSE {"ok"}

\* the MOVE branch: "ok", or the reason verification failed
VerifyMoveResults(f, source, dest, expected_checksum) ==
    IF ~Exists(f, dest) THEN {"destination_missing"}
    ELSE IF Exists(f, source) THEN {"source_still_exists"}
    ELSE IF StSize(f[dest]) = 0 THEN {"destination_empty"}
    ELSE IF Truthy(expected_checksum)
         THEN { IF actual_checksum # expected_checksum
                THEN "checksum_mismatch" ELSE "ok" :
                    actual_checksum \in CalculateChecksumResults(f[dest]) }
         ELSE {"ok"}

\* ------------------------------------------------------ _perform_rollback
\* restore from the backup (second half of _perform_rollback), starting
\* from filesystem f1; restored: the backup was copied over the source
RestoreFromBackupResults(f1, b, source, dest, backup_path) ==
    IF BackupUsable(b, backup_path)
    THEN UNION {
           IF c.raised
           THEN {[ok |-> FALSE, logged |-> TRUE, restored |-> TRUE,
                  fs |-> [f1 EXCEPT ![source] = c.target]]}
           ELSE LET f2 == [f1 EXCEPT ![source] = c.target]
                IN  IF Exists(f2, source)
                    THEN IF Exists(f2, dest)
                         THEN { [ok |-> ~u.raised, logged |-> u.raised,
                                 restored |-> TRUE,
                                 fs |-> [f2 EXCEPT ![dest] = u.target]] :
                                    u \in UnlinkResults(f2[dest]) }
                         ELSE {[ok |-> TRUE, logged |-> FALSE,
                                restored |-> TRUE, fs |-> f2]}
                    ELSE {[ok |-> FALSE, logged |-> FALSE,
                           restored |-> TRUE, fs |-> f2]} :
           c \in CopyResults(b[backup_path].data, f1[source]) }
    ELSE {[ok |-> FALSE, logged |-> FALSE, restored |-> FALSE, fs |-> f1]}

\* the outcome r of the restore, after a move-back that ended as mb
AfterMoveBack(r, mb) ==
    [ok |-> r.ok, logged |-> r.logged, moved_back |-> mb,
     restored |-> r.restored, fs |-> r.fs]

\* mutant: the backup is tried before the move-back
PerformRollbackResults_BackupFirst(f, b, source, dest, backup_path) ==
    IF BackupUsable(b, backup_path)
    THEN { AfterMoveBack(r, "none") :
              r \in RestoreFromBackupResults(f, b, source, dest, backup_path) }
    ELSE IF Exists(f, dest)
    THEN { LET f1 == [f EXCEPT ![dest] = m.src, ![source] = m.dst]
           IN  [ok |-> ~m.raised /\ Exists(f1, source) /\ ~Exists(f1, dest),
                logged |-> m.raised,
                moved_back |-> IF m.raised THEN "raised"
                               ELSE IF Exists(f1, source) /\ ~Exists(f1, dest)
                               THEN "ok" ELSE "not_ok",
                restored |-> FALSE, fs |-> f1] :
           m \in MoveResults(f[dest], f[source]) }
    ELSE {[ok |-> FALSE, logged |-> FALSE, moved_back |-> "none",
           restored |-> FALSE, fs |-> f]}

\* ok: the value returned; logged: a rollback_failed entry goes to the
\* error log (exception path only); fs: the filesystem left behind;
\* moved_back: how the move of the destination back to the source ended
\* ("none": not tried); restored: the backup was copied over the source
PerformRollbackResults(f, b, source, dest, backup_path) ==
    IF Exists(f, dest)
    THEN UNION {
           LET f1 == [f EXCEPT ![dest] = m.src, ![source] = m.dst]
           IN  IF m.raised
               THEN {[ok |-> FALSE, logged |-> TRUE, moved_back |-> "raised",
                      restored |-> FALSE, fs |-> f1]}
               ELSE IF Exists(f1, source) /\ ~Exists(f1, dest)
                    THEN {[ok |-> TRUE, logged |-> FALSE, moved_back |-> "ok",
                           restored |-> FALSE, fs |-> f1]}
                    ELSE { AfterMoveBack(r, "not_ok") :
                              r \in RestoreFromBackupResults(f1, b, source,
                                                             dest, backup_path) } :
           m \in MoveResults(f[dest], f[source]) }
    ELSE { AfterMoveBack(r, "none") :
              r \in RestoreFromBackupResults(f, b, source, dest, backup_path) }

\* ------------------------------------------------------------------ Init
NoCall ==
    [source |-> "item", destination |-> "item", create_backup |-> FALSE,
     backup_path |-> None, source_checksum |-> None, source_size |-> 0,
     verification |-> "none", rollback |-> "none", error |-> "none",
     result |-> "none", steps |-> <<>>,
     cleanup |-> "none", env_ok |-> TRUE,
     moved_back |-> "none", restored |-> FALSE,
     pre |-> [fs |-> [p \in Paths |-> NoFile],
              backups |-> [k \in BackupNames |-> NoFile],
              dirs |-> [d \in Dirs |-> FALSE],
              nops |-> 0, moved |-> FALSE]]

\* ------------------------------------------- state of the other scripts
\* Backlog.md as the scripts read it: the table row of the item with the
\* target of its link ("items" or "archive" folder), its Status cell and
\* whether its Progress cell is 100%
NoBacklogFile ==
    [exists |-> FALSE, row |-> FALSE, link |-> "items", status |-> "done",
     complete |-> FALSE]
NoRow == [NoBacklogFile EXCEPT !.exists = TRUE]
Row(link, status, complete) ==
    [exists |-> TRUE, row |-> TRUE, link |-> link, status |-> status,
     complete |-> complete]
BacklogFiles ==
    {NoBacklogFile, NoRow}
    \cup {Row(l, st, c) : l \in {"items", "archive"},
                          st \in {"done", "archived"}, c \in BOOLEAN}

NoRun == [result |-> "none", dry_run |-> FALSE, saved |-> FALSE]
NoLog == [exists |-> FALSE, runs |-> <<>>]
NoResult ==
    [status |-> "unknown", in_items_folder |-> FALSE,
     in_archive_folder |-> FALSE, backlog_status |-> "None",
     verification_passed |-> FALSE, errors |-> 0, warnings |-> 0,
     called |-> FALSE]

\* file names of the archive directory: the old format
\* TD_012_Word_Word.md (id and description words), the new format
\* <date>-TD_012-word-word-[tag][tag].md, and any other *.md name
OldName(id, words) ==
    [format |-> "old", id |-> id, words |-> words, tags |-> <<>>]
NewFormatName(id, words, tags) ==
    [format |-> "new", id |-> id, words |-> words, tags |-> tags]
Readme == [format |-> "other", id |-> "README", words |-> <<>>, tags |-> <<>>]

\* three old-format names of one item; the first two differ in the fifth
\* description word only.  No word is one of the terms that
\* determine_tags or create_description look for.
OldNames ==
    { OldName("TD_012", <<"alpha", "beta", "gamma", "delta", "one">>),
      OldName("TD_012", <<"alpha", "beta", "gamma", "delta", "two">>),
      OldName("TD_012", <<"alpha", "beta">>) }

\* file contents; the last one holds a critical indicator
MdContents == {"text one", "text two", "critical text"}
Absent == "absent"

\* the tag sets the files of the model can get (type, impact, status)
TagLists == {<<"refactor", "completed">>, <<"refactor", "critical", "completed">>}
Names ==
    OldNames \cup {Readme}
    \cup { NewFormatName("TD_012", w, t) :
              w \in {<<"alpha", "beta", "gamma", "delta">>, <<"alpha", "beta">>},
              t \in TagLists }

EmptyDirectory == [n \in Names |-> Absent]
NoMigration ==
    [pc |-> "idle", dry_run |-> FALSE, windows |-> FALSE, md_files |-> <<>>,
     migrated |-> 0, skipped |-> 0, errors |-> 0, before |-> EmptyDirectory]
MigratorInit == directory = EmptyDirectory /\ migrator = NoMigration

\* the other scripts have not run
ScriptsInit ==
    /\ backlog_file = NoBacklogFile
    /\ archiver = NoRun
    /\ auto_archive_log = NoLog
    /\ nruns = 0
    /\ result = NoResult

\* no FileOperationVerifier is in use
VerifierInit ==
    /\ backups = [k \in BackupNames |-> NoFile]
    /\ log_file = LogData(<<>>, <<>>, <<>>)
    /\ enable_rollback = TRUE
    /\ operation_log = <<>>
    /\ error_log = <<>>
    /\ verification_failures = <<>>
    /\ ncalls = 0
    /\ pc = "idle"
    /\ call = NoCall
    /\ moved_to = {}

\* __init__: empty in-memory logs; the backup directory is created; the
\* log file is whatever an earlier run left (nothing, here)
Init ==
    /\ \E file \in RegularFiles \cup {Directory} :
          fs = [p \in Paths |-> IF p = "item" THEN file ELSE NoFile]
    /\ \E a \in BOOLEAN :
          dirs = [d \in Dirs |-> IF d = "items" THEN TRUE ELSE a]
    /\ backups = [k \in BackupNames |-> NoFile]
    /\ log_file = LogData(<<>>, <<>>, <<>>)
    /\ enable_rollback \in BOOLEAN
    /\ operation_log = <<>>
    /\ error_log = <<>>
    /\ verification_failures = <<>>
    /\ ncalls = 0
    /\ pc = "idle"
    /\ call = NoCall
    /\ moved_to = {}
    /\ ScriptsInit
    /\ MigratorInit

Idle == pc \in {"idle", "returned", "raised"}

\* paths of moved_to that f2 leaves as f had them
StillMoved(f, f2) == {p \in moved_to : f2[p] = f[p]}

Step(name) == Append(call.steps, name)

\* --------------------------------------------------------- environment
\* a later standalone invocation: FileOperationVerifier(base_path, ...)
NewVerifier(rollback) ==
    /\ UNCHANGED scripts
    /\ Idle
    /\ enable_rollback' = rollback
    /\ operation_log' = <<>>
    /\ error_log' = <<>>
    /\ verification_failures' = <<>>
    /\ pc' = "idle"
    /\ call' = NoCall
    /\ UNCHANGED <<fs, dirs, backups, log_file, ncalls, moved_to>>

\* the caller (re)creates a file: test_file.write_text(...)
WriteFile(p, c) ==
    /\ UNCHANGED scripts
    /\ Idle
    /\ ~Exists(fs, p)
    /\ fs' = [fs EXCEPT ![p] = File(c)]
    /\ dirs' = [dirs EXCEPT ![Parent(p)] = TRUE]
    /\ moved_to' = StillMoved(fs, fs')
    /\ pc' = "idle"
    /\ call' = NoCall
    /\ UNCHANGED <<backups, logvars, enable_rollback, ncalls>>

\* ------------------------------------------------ move_with_verification
Call(source, destination, create_backup) ==
    /\ UNCHANGED scripts
    /\ Idle
    /\ ncalls < MaxCalls
    /\ ncalls' = ncalls + 1
    /\ pc' = "preflight"
    /\ call' = [NoCall EXCEPT
                  !.source = source,
                  !.destination = destination,
                  !.create_backup = create_backup,
                  !.pre = [fs |-> fs, backups |-> backups, dirs |-> dirs,
                           nops |-> Len(operation_log),
                           moved |-> destination \in moved_to]]
    /\ UNCHANGED <<fsvars, logvars, enable_rollback, moved_to>>

\* mutants of the pre-flight checks: one check left out
PreflightError_NoDestinationCheck(f, source, destination) ==
    IF ~Exists(f, source) THEN "source_not_found" ELSE "none"

PreflightError_NoSourceCheck(f, source, destination) ==
    IF Exists(f, destination) THEN "destination_exists" ELSE "none"

\* mutant: the two checks in the other order
PreflightError_DestinationFirst(f, source, destination) ==
    IF Exists(f, destination) THEN "destination_exists"
    ELSE IF ~Exists(f, source) THEN "source_not_found"
    ELSE "none"

\* the pre-flight checks, in the order of the code
PreflightError(f, source, destination) ==
    IF ~Exists(f, source) THEN "source_not_found"
    ELSE IF Exists(f, destination) THEN "destination_exists"
    ELSE "none"

\* mutant: the operation record is written without the error entry
LogFailure_NoErrorEntry(error_type) ==
    LET ops == Append(operation_log, LogEntry(ncalls, FALSE))
    IN  /\ operation_log' = ops
        /\ log_file' \in SaveLogs(log_file, ops, error_log,
                                  verification_failures)
        /\ UNCHANGED <<error_log, verification_failures>>

\* _log_error(error_type) followed by _log_operation(MOVE, False), each
\* saving the log file
LogFailure(error_type) ==
    LET errs == Append(error_log, error_type)
        ops == Append(operation_log, LogEntry(ncalls, FALSE))
    IN  /\ error_log' = errs
        /\ operation_log' = ops
        /\ \E lf1 \in SaveLogs(log_file, operation_log, errs,
                               verification_failures) :
               log_file' \in SaveLogs(lf1, ops, errs, verification_failures)
        /\ UNCHANGED verification_failures

Preflight ==
    /\ UNCHANGED scripts
    /\ pc = "preflight"
    /\ LET e == PreflightError(fs, call.source, call.destination)
       IN  IF e # "none"
           THEN /\ LogFailure(e)
                /\ pc' = "returned"
                /\ call' = [call EXCEPT !.error = e, !.result = "false",
                                        !.steps = Step("preflight")]
           ELSE /\ pc' = "backup"
                /\ call' = [call EXCEPT !.steps = Step("preflight")]
                /\ UNCHANGED logvars
    /\ UNCHANGED <<fsvars, enable_rollback, ncalls, moved_to>>

\* mutant: the backup does not depend on enable_rollback
Backup_IgnoreEnableRollback ==
    /\ UNCHANGED scripts
    /\ pc = "backup"
    /\ IF call.create_backup
       THEN \E r \in CreateBackupResults(fs, backups, call.source) :
               /\ backups' = r.backups
               /\ call' = [call EXCEPT
                             !.backup_path = r.backup_path,
                             !.env_ok = @ /\ Truthy(r.backup_path),
                             !.steps = Step("backup")]
       ELSE /\ UNCHANGED backups
            /\ call' = call
    /\ pc' = "checksum"
    /\ UNCHANGED <<fs, dirs, logvars, enable_rollback, ncalls, moved_to>>

\* mutant: a failed backup ends the call with a failure
Backup_FailureFatal ==
    /\ UNCHANGED scripts
    /\ pc = "backup"
    /\ IF call.create_backup /\ enable_rollback
       THEN \E r \in CreateBackupResults(fs, backups, call.source) :
               /\ backups' = r.backups
               /\ IF Truthy(r.backup_path)
                  THEN /\ pc' = "checksum"
                       /\ call' = [call EXCEPT
                                     !.backup_path = r.backup_path,
                                     !.steps = Step("backup")]
                       /\ UNCHANGED logvars
                  ELSE /\ LogFailure("backup_failed")
                       /\ pc' = "returned"
                       /\ call' = [call EXCEPT !.result = "false",
                                               !.env_ok = FALSE,
                                               !.steps = Step("backup")]
       ELSE /\ UNCHANGED <<backups, logvars>>
            /\ call' = call
            /\ pc' = "checksum"
    /\ UNCHANGED <<fs, dirs, enable_rollback, ncalls, moved_to>>

\* "if create_backup and self.enable_rollback: backup_path = _create_backup"
Backup ==
    /\ UNCHANGED scripts
    /\ pc = "backup"
    /\ IF call.create_backup /\ enable_rollback
       THEN \E r \in CreateBackupResults(fs, backups, call.source) :
               /\ backups' = r.backups
               /\ call' = [call EXCEPT
                             !.backup_path = r.backup_path,
                             !.env_ok = @ /\ Truthy(r.backup_path),
                             !.steps = Step("backup")]
       ELSE /\ UNCHANGED backups
            /\ call' = call
    /\ pc' = "checksum"
    /\ UNCHANGED <<fs, dirs, logvars, enable_rollback, ncalls, moved_to>>

\* source_checksum = _calculate_checksum(source); source_size = st_size
ChecksumStep ==
    /\ UNCHANGED scripts
    /\ pc = "checksum"
    /\ \E cs \in CalculateChecksumResults(fs[call.source]) :
          call' = [call EXCEPT !.source_checksum = cs,
                               !.env_ok = @ /\ Truthy(cs),
                               !.source_size = StSize(fs[call.source]),
                               !.steps = Step("checksum")]
    /\ pc' = "mkdir"
    /\ UNCHANGED <<fsvars, logvars, enable_rollback, ncalls, moved_to>>

\* destination.parent.mkdir(parents=True, exist_ok=True): outside any try;
\* it raises when the directory cannot be created (a path component is a
\* regular file, or permission is denied) and the exception leaves the call
Mkdir ==
    /\ UNCHANGED scripts
    /\ pc = "mkdir"
    /\ \/ /\ dirs' = [dirs EXCEPT ![Parent(call.destination)] = TRUE]
          /\ pc' = "move"
          /\ call' = [call EXCEPT !.steps = Step("mkdir")]
       \/ /\ ~dirs[Parent(call.destination)]
          /\ UNCHANGED dirs
          /\ pc' = "raised"
          /\ call' = [call EXCEPT !.result = "raised",
                                  !.env_ok = FALSE,
                                  !.steps = Step("mkdir")]
    /\ UNCHANGED <<fs, backups, logvars, enable_rollback, ncalls,
                   moved_to>>

\* mutant: success is returned on the move's return alone
Move_TrustReturn ==
    /\ UNCHANGED scripts
    /\ pc = "move"
    /\ \E m \in MoveResults(fs[call.source], fs[call.destination]) :
          /\ ~m.raised
          /\ fs' = [fs EXCEPT ![call.source] = m.src,
                              ![call.destination] = m.dst]
    /\ operation_log' = Append(operation_log, LogEntry(ncalls, TRUE))
    /\ log_file' = LogData(operation_log', error_log, verification_failures)
    /\ pc' = "returned"
    /\ call' = [call EXCEPT !.result = "true", !.steps = Step("move")]
    /\ moved_to' = StillMoved(fs, fs') \cup {call.destination}
    /\ UNCHANGED <<dirs, backups, enable_rollback, error_log,
                   verification_failures, ncalls>>

\* shutil.move(source, destination) inside try/except; the except branch
\* logs the failure and copies the backup over the source
Move ==
    /\ UNCHANGED scripts
    /\ pc = "move"
    /\ \E m \in MoveResults(fs[call.source], fs[call.destination]) :
          LET f1 == [fs EXCEPT ![call.source] = m.src,
                               ![call.destination] = m.dst]
          IN  IF m.raised
              THEN /\ LogFailure("move_exception")
                   /\ IF BackupUsable(backups, call.backup_path)
                      THEN \E c \in CopyResults(backups[call.backup_path].data,
                                                f1[call.source]) :
                              fs' = [f1 EXCEPT ![call.source] = c.target]
                      ELSE fs' = f1
                   /\ pc' = "returned"
                   /\ call' = [call EXCEPT !.error = "move_exception",
                                           !.result = "false",
                                           !.env_ok = FALSE,
                                           !.steps = Step("move")]
              ELSE /\ fs' = f1
                   /\ pc' = "verify"
                   /\ call' = [call EXCEPT
                                 !.env_ok = @ /\ m = GoodMove(fs[call.source]),
                                 !.steps = Step("move")]
                   /\ UNCHANGED logvars
    /\ moved_to' = StillMoved(fs, fs')
    /\ UNCHANGED <<dirs, backups, enable_rollback, ncalls>>

\* history: verification failed on the checksum although the destination
\* holds the expected content, i.e. the read of the destination failed
ChecksumReadFailed(v) ==
    /\ v = "checksum_mismatch"
    /\ Checksum(fs[call.destination].data) = call.source_checksum

\* verification_passed = _verify_file_operation(MOVE, ...); a failure is
\* recorded by _log_verification_failure (entry: the operation); then the
\* success branch (log, backup clean-up, return True) or the start of the
\* failure branch (log; rollback only if enable_rollback)
Verify ==
    /\ UNCHANGED scripts
    /\ pc = "verify"
    /\ \E v \in VerifyMoveResults(fs, call.source, call.destination,
                                  call.source_checksum) :
          IF v = "ok"
          THEN LET ops == Append(operation_log, LogEntry(ncalls, TRUE))
               IN  /\ operation_log' = ops
                   /\ log_file' \in SaveLogs(log_file, ops, error_log,
                                             verification_failures)
                   /\ UNCHANGED <<error_log, verification_failures>>
                   /\ IF BackupUsable(backups, call.backup_path)
                      THEN \E u \in UnlinkResults(backups[call.backup_path]) :
                              /\ backups' = [backups EXCEPT
                                               ![call.backup_path] = u.target]
                              /\ call' = [call EXCEPT
                                            !.verification = "passed",
                                            !.result = "true",
                                            !.cleanup = IF u.raised
                                                        THEN "failed"
                                                        ELSE "done",
                                            !.env_ok = @ /\ ~u.raised,
                                            !.steps = Step("verify")]
                      ELSE /\ UNCHANGED backups
                           /\ call' = [call EXCEPT
                                         !.verification = "passed",
                                         !.result = "true",
                                         !.steps = Step("verify")]
                   /\ pc' = "returned"
                   /\ moved_to' = moved_to \cup {call.destination}
          ELSE LET vfs == Append(verification_failures, "MOVE")
                   ops == Append(operation_log, LogEntry(ncalls, FALSE))
               IN  /\ verification_failures' = vfs
                   /\ operation_log' = ops
                   /\ \E lf1 \in SaveLogs(log_file, operation_log, error_log,
                                          vfs) :
                         log_file' \in SaveLogs(lf1, ops, error_log, vfs)
                   /\ UNCHANGED <<error_log, backups, moved_to>>
                   /\ pc' = IF enable_rollback THEN "rollback" ELSE "returned"
                   /\ call' = [call EXCEPT
                                 !.verification = v,
                                 !.env_ok = @ /\ ~ChecksumReadFailed(v),
                                 !.error = "verification_failed",
                                 !.result = IF enable_rollback
                                            THEN "none" ELSE "false",
                                 !.steps = Step("verify")]
    /\ UNCHANGED <<fs, dirs, enable_rollback, ncalls>>

\* rollback_success = _perform_rollback(...); return False
Rollback ==
    /\ UNCHANGED scripts
    /\ pc = "rollback"
    /\ \E r \in PerformRollbackResults(fs, backups, call.source,
                                       call.destination, call.backup_path) :
          /\ fs' = r.fs
          /\ IF r.logged
             THEN LET errs == Append(error_log, "rollback_failed")
                  IN  /\ error_log' = errs
                      /\ log_file' \in SaveLogs(log_file, operation_log, errs,
                                                verification_failures)
             ELSE UNCHANGED <<error_log, log_file>>
          /\ call' = [call EXCEPT
                        !.rollback = IF r.ok THEN "ok" ELSE "failed",
                        !.moved_back = r.moved_back,
                        !.restored = r.restored,
                        !.result = "false",
                        !.steps = Step("rollback")]
    /\ pc' = "returned"
    /\ moved_to' = StillMoved(fs, fs')
    /\ UNCHANGED <<dirs, backups, enable_rollback, operation_log,
                   verification_failures, ncalls>>

Next ==
    \/ \E r \in BOOLEAN : NewVerifier(r)
    \/ \E p \in Paths, c \in Contents : WriteFile(p, c)
    \/ \E s, d \in Paths, b \in BOOLEAN : Call(s, d, b)
    \/ Preflight
    \/ Backup
    \/ ChecksumStep
    \/ Mkdir
    \/ Move
    \/ Verify
    \/ Rollback

Spec == Init /\ [][Next]_vars

\* ------------------------------------------------ archive_with_verification
\* archive_dir / f"{timestamp}-{source.name}" with the date of the day as
\* timestamp; the calls of one behaviour fall on the same day, and of the
\* names so built only the one of "item" in "archive" is a path of the
\* model
ArchiveDestination(archive_dir, source) ==
    IF archive_dir = "archive" /\ source = "item" THEN "archived"
    ELSE <<archive_dir, "date", source>>

\* the value returned, from the result of move_with_verification
ArchiveReturn(success, destination) ==
    IF success THEN <<TRUE, destination>> ELSE <<FALSE, None>>

\* success = self.move_with_verification(source, destination,
\*                                        create_backup=True)
ArchiveWithVerification(source, archive_dir) ==
    Call(source, ArchiveDestination(archive_dir, source), TRUE)

\* a verifier used through archive_with_verification only
NextArchive ==
    \/ \E r \in BOOLEAN : NewVerifier(r)
    \/ \E p \in Paths, c \in Contents : WriteFile(p, c)
    \/ ArchiveWithVerification("item", "archive")
    \/ Preflight
    \/ Backup
    \/ ChecksumStep
    \/ Mkdir
    \/ Move
    \/ Verify
    \/ Rollback

SpecArchive == Init /\ [][NextArchive]_vars

\* ============================================ auto_archive_completed.py
\* the item file in items_path and its place in the archive: archive_dir /
\* archive_filename, both computed from the item (modification date, id,
\* description, tags)
ItemPath == "item"
ArchivePath == "archived"

\* find_completed_items: the row of the item shows 100% and its link
\* does not contain "archive"
FindCompletedItems(bl) ==
    bl.exists /\ bl.row /\ bl.complete /\ bl.link # "archive"

\* verify_file_operation("MOVE", source, dest)
AutoVerifyMove(f, source, dest) ==
    /\ Exists(f, dest)
    /\ ~Exists(f, source)
    /\ StSize(f[dest]) # 0

\* the two re.sub of update_backlog_reference: the link of the item, and
\* the Status cell of a row at 100%
UpdatedBacklog(bl) ==
    IF bl.row
    THEN [bl EXCEPT !.link = "archive",
                    !.status = IF bl.complete THEN "archived" ELSE @]
    ELSE bl

\* update_backlog_reference: read_text raises on a missing file;
\* write_text may raise, leaving the file as it was or truncated
UpdateBacklogReferenceResults(bl) ==
    IF ~bl.exists
    THEN {[ok |-> FALSE, backlog_file |-> bl]}
    ELSE {[ok |-> TRUE, backlog_file |-> UpdatedBacklog(bl)],
          [ok |-> FALSE, backlog_file |-> bl],
          [ok |-> FALSE, backlog_file |-> NoRow]}

ArchiveOutcome(ret, f, d, bl) ==
    [ret |-> ret, fs |-> f, dirs |-> d, backlog_file |-> bl]

\* the restoring shutil.move(dest_path, source_path); archive_item returns
\* False whether it raises or not
RestoreResults(f, d, bl) ==
    { ArchiveOutcome("false",
                     [f EXCEPT ![ArchivePath] = m.src, ![ItemPath] = m.dst],
                     d, bl) :
         m \in MoveResults(f[ArchivePath], f[ItemPath]) }

\* archive_item after shutil.move returned: verification, restore,
\* update of Backlog.md
AfterMoveResults(f1, d, bl) ==
    IF ~AutoVerifyMove(f1, ItemPath, ArchivePath)
    THEN IF Exists(f1, ArchivePath) /\ ~Exists(f1, ItemPath)
         THEN RestoreResults(f1, d, bl)
         ELSE {ArchiveOutcome("false", f1, d, bl)}
    ELSE UNION {
           IF u.ok
           THEN {ArchiveOutcome("true", f1, d, u.backlog_file)}
           ELSE RestoreResults(f1, d, u.backlog_file) :
           u \in UpdateBacklogReferenceResults(bl) }

\* archive_item: ret is "true", "false", or "raised" when the mkdir of the
\* archive directory, which is outside the try, raises
ArchiveItemResults(f, d, bl) ==
    IF ~Exists(f, ItemPath)
    THEN {ArchiveOutcome("false", f, d, bl)}
    ELSE (IF d[Parent(ArchivePath)] THEN {}
          ELSE {ArchiveOutcome("raised", f, d, bl)})
         \cup
         LET d1 == [d EXCEPT ![Parent(ArchivePath)] = TRUE]
         IN  IF Exists(f, ArchivePath)
             THEN {ArchiveOutcome("false", f, d1, bl)}
             ELSE UNION {
                    LET f1 == [f EXCEPT ![ItemPath] = m.src,
                                        ![ArchivePath] = m.dst]
                    IN  IF m.raised
                        THEN {ArchiveOutcome("false", f1, d1, bl)}
                        ELSE AfterMoveResults(f1, d1, bl) :
                    m \in MoveResults(f[ItemPath], f[ArchivePath]) }

\* run_auto_archive: archive_item for the item found complete, nothing in
\* dry-run mode or when no item is found
RunAutoArchiveResults(dry_run, f, d, bl) ==
    IF FindCompletedItems(bl) /\ ~dry_run
    THEN ArchiveItemResults(f, d, bl)
    ELSE {ArchiveOutcome("none", f, d, bl)}

\* "Keep only last 50 runs"
KeepRuns == 50

\* mutant: the first 50 runs are kept
SaveOperationLog_KeepFirst(log, results) ==
    LET runs == Append(IF log.exists THEN log.runs ELSE <<>>, results)
    IN  [exists |-> TRUE,
         runs |-> SubSeq(runs, 1, IF Len(runs) > KeepRuns
                                  THEN KeepRuns ELSE Len(runs))]

\* save_operation_log: load the file or start with no runs, append,
\* log_data['runs'][-50:], write
SaveOperationLog(log, results) ==
    LET runs == Append(IF log.exists THEN log.runs ELSE <<>>, results)
    IN  [exists |-> TRUE,
         runs |-> SubSeq(runs, IF Len(runs) > KeepRuns
                               THEN Len(runs) - KeepRuns + 1 ELSE 1,
                         Len(runs))]

\* main(): AutoArchiver(), run_auto_archive, and save_operation_log unless
\* dry_run; an exception ends the run before the log is saved.  The saved
\* run is identified by its timestamp, the number of the save.
Main(dry_run) ==
    /\ nruns < MaxRuns
    /\ \E r \in RunAutoArchiveResults(dry_run, fs, dirs, backlog_file) :
          LET saved == ~dry_run /\ r.ret # "raised"
          IN  /\ fs' = r.fs
              /\ dirs' = r.dirs
              /\ backlog_file' = r.backlog_file
              /\ archiver' = [result |-> r.ret, dry_run |-> dry_run,
                              saved |-> saved]
              /\ IF saved
                 THEN /\ nruns' = nruns + 1
                      /\ auto_archive_log' =
                            SaveOperationLog(auto_archive_log,
                                             [timestamp |-> nruns + 1])
                 ELSE UNCHANGED <<nruns, auto_archive_log>>
    /\ UNCHANGED <<verifier, result, directory, migrator>>

\* the backlog is edited by hand between runs
EditBacklog(bl) ==
    /\ backlog_file' = bl
    /\ archiver' = NoRun
    /\ UNCHANGED <<fs, dirs, verifier, auto_archive_log, nruns, result,
                   directory, migrator>>

\* an item file in the items folder, listed in Backlog.md as complete
InitAutoArchive ==
    /\ \E file \in RegularFiles :
          fs = [p \in Paths |-> IF p = ItemPath THEN file ELSE NoFile]
    /\ \E a \in BOOLEAN :
          dirs = [d \in Dirs |-> IF d = "items" THEN TRUE ELSE a]
    /\ backlog_file = Row("items", "done", TRUE)
    /\ archiver = NoRun
    /\ auto_archive_log = NoLog
    /\ nruns = 0
    /\ result = NoResult
    /\ VerifierInit
    /\ MigratorInit

NextAutoArchive ==
    \/ \E dry_run \in BOOLEAN : Main(dry_run)
    \/ \E bl \in BacklogFiles : EditBacklog(bl)
    \/ \E c \in Contents : WriteFile(ItemPath, c)

SpecAutoArchive == InitAutoArchive /\ [][NextAutoArchive]_vars

\* ============================================== verify_backlog_archive.py
\* items_path.glob(f"{item_id}_*.md") and archive_path.rglob(
\* f"*{item_id}*.md"): the item file and the archived file carry the id
InItemsFolder(f) == Exists(f, ItemPath)
InArchiveFolder(f) == Exists(f, ArchivePath)

\* group(2) of the row pattern: the link is followed by four "[^|]*\|",
\* which consume the cells up to the end of the Status cell, then by
\* "[^|]*([^|]+)", whose greedy first part leaves the group the last
\* character of the next cell (Progress): a blank or "%", in no case the
\* Status cell
StatusText(bl) == IF bl.complete THEN "%" ELSE " "

\* "ARCHIVED" in status_text or "archive" in linked_path.lower(), for a
\* row the pattern matches; None without file or row
BacklogStatus(bl) ==
    IF bl.exists /\ bl.row
    THEN IF StatusText(bl) = "archived" \/ bl.link = "archive"
         THEN "archived" ELSE "active"
    ELSE "None"

\* the decision on (backlog_status, in_items_folder, in_archive_folder);
\* errors and warnings are the numbers of messages
VerifyArchiveOperation(f, bl) ==
    LET in_items == InItemsFolder(f)
        in_archive == InArchiveFolder(f)
        backlog_status == BacklogStatus(bl)
        status ==
            IF backlog_status = "archived"
            THEN IF in_archive /\ ~in_items THEN "correctly_archived"
                 ELSE IF in_items /\ ~in_archive THEN "false_archive_status"
                 ELSE IF in_items /\ in_archive THEN "duplicate_files"
                 ELSE "missing_file"
            ELSE IF in_items /\ ~in_archive THEN "correctly_active"
                 ELSE IF in_archive /\ ~in_items THEN "false_active_status"
                 ELSE IF in_items /\ in_archive THEN "duplicate_files"
                 ELSE "unknown"
    IN  [status |-> status,
         in_items_folder |-> in_items,
         in_archive_folder |-> in_archive,
         backlog_status |-> backlog_status,
         verification_passed |->
             status \in {"correctly_archived", "correctly_active"},
         errors |-> IF status \in {"false_archive_status", "duplicate_files",
                                   "missing_file"} THEN 1 ELSE 0,
         warnings |-> IF status = "false_active_status" THEN 1 ELSE 0,
         called |-> TRUE]

\* verifier.verify_archive_operation(item_id)
VerifyItem ==
    /\ result' = VerifyArchiveOperation(fs, backlog_file)
    /\ UNCHANGED <<fs, dirs, verifier, backlog_file, archiver,
                   auto_archive_log, nruns, directory, migrator>>

\* any placement of the item file and any Backlog.md
InitVerifyArchive ==
    /\ fs \in [Paths -> {NoFile, File(<<1>>)}]
    /\ dirs = [d \in Dirs |-> TRUE]
    /\ backlog_file \in BacklogFiles
    /\ archiver = NoRun
    /\ auto_archive_log = NoLog
    /\ nruns = 0
    /\ result = NoResult
    /\ VerifierInit
    /\ MigratorInit

NextVerifyArchive ==
    \/ VerifyItem
    \/ \E bl \in BacklogFiles : EditBacklog(bl)
    \/ \E p \in Paths, c \in Contents : WriteFile(p, c)

SpecVerifyArchive == InitVerifyArchive /\ [][NextVerifyArchive]_vars

\* ============================================== migrate_archive_naming.py
\* type_mapping: the type tag of the work item type
TypeTag(id) == IF id = "TD_012" THEN "refactor" ELSE "bug"

\* determine_tags for a description without area or detail terms: type
\* tag, impact tag from the content, status tag
DetermineTags(name, content) ==
    <<TypeTag(name.id)>>
    \o (IF content = "critical text" THEN <<"critical">> ELSE <<>>)
    \o <<IF TypeTag(name.id) = "bug" THEN "resolved" ELSE "completed">>

\* create_description: lower-case words joined by hyphens, at most the
\* first four
CreateDescription(words) ==
    IF Len(words) > 4 THEN SubSeq(words, 1, 4) ELSE words

\* build_new_filename: date, id, description, tags in priority order
\* (type, impact, status: the order DetermineTags gives)
BuildNewFilename(name, tags) ==
    NewFormatName(name.id, CreateDescription(name.words), tags)

\* the orders in which directory.glob("*.md") may list the set S
RECURSIVE Orders(_)
Orders(S) ==
    IF S = {} THEN {<<>>}
    ELSE UNION { { <<n>> \o rest : rest \in Orders(S \ {n}) } : n \in S }

\* file_path.rename(new_path): the target is replaced silently (POSIX) or
\* the call raises when it exists (Windows)
RenameResults(dir, old, new, windows) ==
    IF windows /\ dir[new] # Absent
    THEN [raised |-> TRUE, directory |-> dir]
    ELSE [raised |-> FALSE,
          directory |-> [dir EXCEPT ![new] = dir[old], ![old] = Absent]]

\* migrate_directory up to the loop: the list of the markdown files
MigrateDirectory(dry_run, windows) ==
    /\ migrator.pc \in {"idle", "done"}
    /\ \E md_files \in Orders({n \in Names : directory[n] # Absent}) :
          migrator' = [NoMigration EXCEPT
                         !.pc = IF md_files = <<>> THEN "done" ELSE "loop",
                         !.dry_run = dry_run,
                         !.windows = windows,
                         !.md_files = md_files,
                         !.before = directory]
    /\ UNCHANGED <<fs, dirs, verifier, backlog_file, archiver,
                   auto_archive_log, nruns, result, directory>>

\* one round of the loop: migrate_file(file_path, completion_date) and
\* the count of its outcome
MigrateFile ==
    /\ migrator.pc = "loop"
    /\ LET file_path == Head(migrator.md_files)
           rest == Tail(migrator.md_files)
           pc1 == IF rest = <<>> THEN "done" ELSE "loop"
       IN  IF file_path.format # "old"
           THEN /\ migrator' = [migrator EXCEPT !.md_files = rest,
                                                !.pc = pc1,
                                                !.skipped = @ + 1]
                /\ UNCHANGED directory
           ELSE LET tags == DetermineTags(file_path, directory[file_path])
                    new_path == BuildNewFilename(file_path, tags)
                    r == RenameResults(directory, file_path, new_path,
                                       migrator.windows)
                IN  IF migrator.dry_run
                    THEN /\ migrator' = [migrator EXCEPT !.md_files = rest,
                                                         !.pc = pc1,
                                                         !.migrated = @ + 1]
                         /\ UNCHANGED directory
                    ELSE /\ directory' = r.directory
                         /\ migrator' =
                               [migrator EXCEPT
                                  !.md_files = rest,
                                  !.pc = pc1,
                                  !.migrated = IF r.raised THEN @ ELSE @ + 1,
                                  !.errors = IF r.raised THEN @ + 1 ELSE @]
    /\ UNCHANGED <<fs, dirs, verifier, backlog_file, archiver,
                   auto_archive_log, nruns, result>>

\* an archive directory of old-format files
InitMigrate ==
    /\ directory \in { dir \in [Names -> MdContents \cup {Absent}] :
                          \A n \in Names : n.format = "new" => dir[n] = Absent }
    /\ migrator = NoMigration
    /\ fs = [p \in Paths |-> NoFile]
    /\ dirs = [d \in Dirs |-> TRUE]
    /\ ScriptsInit
    /\ VerifierInit

NextMigrate ==
    \/ \E dry_run, windows \in BOOLEAN : MigrateDirectory(dry_run, windows)
    \/ MigrateFile

SpecMigrate == InitMigrate /\ [][NextMigrate]_vars

TypeOK ==
    /\ fs \in [Paths -> Files]
    /\ dirs \in [Dirs -> BOOLEAN]
    /\ backups \in [BackupNames -> Files]
    /\ ncalls \in 0..MaxCalls
    /\ pc \in {"idle", "preflight", "backup", "checksum", "mkdir", "move",
               "verify", "rollback", "returned", "raised"}
    /\ Len(operation_log) <= ncalls
    /\ moved_to \subseteq Paths

\* ------------------------------------------------ get_verification_report
RECURSIVE CountSuccessful(_)
CountSuccessful(ops) ==
    IF ops = <<>> THEN 0
    ELSE (IF ops[1].success THEN 1 ELSE 0) + CountSuccessful(Tail(ops))

\* the "summary" part of the report
GetVerificationReport(ops, errs, vfs) ==
    LET total_operations == Len(ops)
        successful_operations == CountSuccessful(ops)
    IN  [total_operations |-> total_operations,
         successful |-> successful_operations,
         failed |-> total_operations - successful_operations,
         total_errors |-> Len(errs),
         verification_failures |-> Len(vfs)]

\* ================================================================ claims
Returned == pc = "returned"
Ended == pc \in {"returned", "raised"}
Succeeded == pc = "returned" /\ call.result = "true"
Failed == pc = "returned" /\ call.result = "false"
LastError == IF error_log = <<>> THEN "none" ELSE error_log[Len(error_log)]
SourceUntouched == fs[call.source] = call.pre.fs[call.source]
DestinationUntouched == fs[call.destination] = call.pre.fs[call.destination]

\* C1 as stated: a call made while the destination exists fails with
\* destination-exists and leaves source and destination as they were.
C1_Original ==
    (Ended /\ Exists(call.pre.fs, call.destination))
        => /\ call.result = "false"
           /\ LastError = "destination_exists"
           /\ SourceUntouched /\ DestinationUntouched

\* C1 amended: a call made while the destination exists fails, with
\* destination-exists when the source exists and with source-not-found
\* when it does not (the source is checked first), and source and
\* destination are as they were.
C1_NoSilentOverwrite ==
    (Ended /\ Exists(call.pre.fs, call.destination))
        => /\ call.result = "false"
           /\ LastError = IF Exists(call.pre.fs, call.source)
                          THEN "destination_exists" ELSE "source_not_found"
           /\ SourceUntouched /\ DestinationUntouched

C1_Witness ==
    /\ Returned
    /\ call.source # call.destination
    /\ Exists(call.pre.fs, call.source)
    /\ Exists(call.pre.fs, call.destination)
    /\ call.pre.fs[call.source] # call.pre.fs[call.destination]
    /\ LastError = "destination_exists"

\* C2: a call that returns success leaves at the destination the content
\* the source had before the call (equal checksums), also when the
\* pre-move checksum could not be computed.
C2_Integrity ==
    Succeeded
        => /\ Exists(fs, call.destination)
           /\ Checksum(fs[call.destination].data)
                = Checksum(call.pre.fs[call.source].data)

\* C3: a call that returns success leaves the source absent and the
\* destination present, whatever the underlying move did.
C3_Exclusivity ==
    Succeeded => ~Exists(fs, call.source) /\ Exists(fs, call.destination)

C3_Witness ==
    /\ Succeeded
    /\ ~Exists(fs, call.source)
    /\ Exists(fs, call.destination)
    /\ call.create_backup

\* C4: when the move returned normally and verification failed, the call
\* ends with the source holding its original content or with an explicit
\* rollback failure (stated for a verifier with rollback enabled, the
\* default).
C4_RollbackSafety ==
    (Returned /\ enable_rollback
              /\ call.verification \notin {"none", "passed"})
        => \/ /\ Exists(fs, call.source)
              /\ fs[call.source] = call.pre.fs[call.source]
           \/ call.rollback = "failed"

\* C5: every call of move_with_verification, whatever its outcome, adds
\* exactly one record to the operation log.
C5_AuditCompleteness ==
    Ended => Len(operation_log) = call.pre.nops + 1

\* C6: a call returns success only after the verification step ran after
\* the move step of that call, and passed.
C6_MandatoryVerification ==
    Succeeded
        => /\ call.verification = "passed"
           /\ \E i, j \in 1..Len(call.steps) :
                 /\ i < j
                 /\ call.steps[i] = "move"
                 /\ call.steps[j] = "verify"

C6_Witness ==
    /\ Succeeded
    /\ call.steps = <<"preflight", "checksum", "mkdir", "move", "verify">>

\* C7 as stated: a move to a destination that still holds what an earlier
\* verified move put there fails with destination-exists and leaves the
\* destination as it was.
C7_Original ==
    (Ended /\ call.pre.moved)
        => /\ call.result = "false"
           /\ LastError = "destination_exists"
           /\ DestinationUntouched

\* C7 amended: such a move fails and leaves the destination as the first
\* move wrote it; the failure is destination-exists when the source of
\* the later call exists (for example recreated), source-not-found when
\* it does not.
C7_DuplicatePrevention ==
    (Ended /\ call.pre.moved)
        => /\ call.result = "false"
           /\ Exists(call.pre.fs, call.source)
                 => LastError = "destination_exists"
           /\ ~Exists(call.pre.fs, call.source)
                 => LastError = "source_not_found"
           /\ Exists(fs, call.destination)
           /\ DestinationUntouched

C7_Witness ==
    /\ Returned
    /\ call.pre.moved
    /\ call.source # call.destination
    /\ Exists(call.pre.fs, call.source)
    /\ call.result = "false"
    /\ ncalls = 2

\* C8: a call that returns failure and whose source existed before the
\* call leaves the source in place with its content of before the call.
C8_SourceRecoverable ==
    (Failed /\ Exists(call.pre.fs, call.source))
        => /\ Exists(fs, call.source)
           /\ fs[call.source] = call.pre.fs[call.source]

\* C9: an operation record present in the log file stays in the log file
\* through every later step, those of a later verifier instance included.
C9_AppendOnlyLog ==
    [][\A i \in 1..Len(log_file.operations) :
          \E j \in 1..Len(log_file'.operations) :
             log_file'.operations[j] = log_file.operations[i]]_vars

\* C10: a call whose source is missing or whose destination exists never
\* gets past the pre-flight checks: no backup, no directory, no move, and
\* the filesystem is as before the call; it ends in a reported failure.
C10_FailFast ==
    (pc # "idle" /\ (\/ ~Exists(call.pre.fs, call.source)
                     \/ Exists(call.pre.fs, call.destination)))
        => /\ fs = call.pre.fs
           /\ backups = call.pre.backups
           /\ dirs = call.pre.dirs
           /\ \A i \in 1..Len(call.steps) : call.steps[i] = "preflight"
           /\ pc \in {"preflight", "returned"}
           /\ Returned => /\ call.result = "false"
                          /\ call.error \in {"source_not_found",
                                             "destination_exists"}

C10_Witness ==
    /\ Returned
    /\ call.error = "source_not_found"
    /\ call.source # call.destination
    /\ call.create_backup /\ enable_rollback
    /\ ~Exists(fs, call.destination)
    /\ call.steps = <<"preflight">>

\* C11: no exception leaves move_with_verification: a failure of a step
\* after the pre-flight checks ends the call with a returned failure and
\* an operation record.
C11_NoEscapingException ==
    /\ pc # "raised"
    /\ (Ended /\ call.result # "true")
          => /\ call.result = "false"
             /\ Len(operation_log) = call.pre.nops + 1
             /\ ~operation_log[Len(operation_log)].success

\* C12: when verification failed and the rollback failed too, the value
\* returned differs from the one of a rolled-back verification failure
\* (False) and the error log holds a rollback_failed entry.
C12_RollbackFailureSurfaced ==
    (Returned /\ call.rollback = "failed")
        => /\ call.result \notin {"true", "false"}
           /\ \E i \in 1..Len(error_log) : error_log[i] = "rollback_failed"

\* C13: _perform_rollback reports success only when the source then exists
\* with the content it had before the move.
C13_RollbackVerifiedByContent ==
    (Returned /\ call.rollback = "ok")
        => /\ Exists(fs, call.source)
           /\ fs[call.source].data = call.pre.fs[call.source].data

\* C14: a rollback that returns failure leaves in place every one of
\* source, destination and backup that existed when it started.
C14_FailedRollbackDeletesNothing ==
    [][(pc = "rollback" /\ call'.rollback = "failed")
          => /\ \A p \in {call.source, call.destination} :
                   Exists(fs, p) => Exists(fs', p)
             /\ \A k \in BackupNames :
                   backups[k].exists => backups'[k].exists]_vars

HasStep(name) == \E i \in 1..Len(call.steps) : call.steps[i] = name
PreSource == call.pre.fs[call.source]

\* C15: with a non-empty regular file as source, no destination, and
\* every filesystem primitive doing what it reports, the call returns
\* success, the destination holds the source's content and size, and the
\* source is gone.
C15_WellBehavedMoveSucceeds ==
    (Ended /\ call.env_ok
           /\ PreSource.is_file /\ StSize(PreSource) > 0
           /\ ~Exists(call.pre.fs, call.destination))
        => /\ Succeeded
           /\ fs[call.destination] = PreSource
           /\ StSize(fs[call.destination]) = call.source_size
           /\ ~Exists(fs, call.source)

C15_Witness ==
    /\ Succeeded /\ call.env_ok
    /\ PreSource.is_file /\ StSize(PreSource) > 0
    /\ call.cleanup = "done"
    /\ fs[call.destination] = PreSource

BackupFailed ==
    /\ call.create_backup
    /\ HasStep("backup")
    /\ ~Truthy(call.backup_path)

\* C16: a call whose requested backup failed goes on: a call that returns
\* has performed the move and, unless the move raised, the verification,
\* and it returns success when the verification passed.
C16_BackupFailureNonFatal ==
    (BackupFailed /\ Returned)
        => /\ HasStep("move")
           /\ call.error # "move_exception" => HasStep("verify")
           /\ call.verification = "passed" => call.result = "true"

C16_Witness ==
    /\ BackupFailed
    /\ Succeeded
    /\ backups[BackupPath(call.source)] # PreSource

\* C17: when verification runs with a source size captured as non-zero
\* and a destination of size zero, verification fails and the call does
\* not return success.
C17_EmptyDestinationDetected ==
    [][(/\ pc = "verify"
        /\ call.source_size > 0
        /\ Exists(fs, call.destination)
        /\ StSize(fs[call.destination]) = 0)
          => /\ call'.verification \notin {"none", "passed"}
             /\ call'.result # "true"]_vars

C17_Witness ==
    /\ call.verification = "destination_empty"
    /\ call.source_size > 0
    /\ StSize(PreSource) > 0

\* C18: a move of a 0-byte regular file that every primitive executed
\* correctly is not failed by verification.
C18_EmptySourceNotFailed ==
    (/\ call.env_ok
     /\ PreSource.is_file /\ StSize(PreSource) = 0
     /\ ~Exists(call.pre.fs, call.destination)
     /\ call.verification # "none")
        => call.verification = "passed"

\* C19 as stated: a call that returns success and had created a backup
\* leaves no backup file behind.
C19_Original ==
    (Succeeded /\ Truthy(call.backup_path))
        => ~backups[call.backup_path].exists

\* C19 amended: a call that returns success and had created a backup
\* leaves no backup file behind, unless deleting the backup raised (the
\* call then still returns success and the backup stays).
C19_BackupCleanup ==
    (Succeeded /\ Truthy(call.backup_path))
        => \/ ~backups[call.backup_path].exists
           \/ call.cleanup = "failed"

C19_Witness ==
    /\ Succeeded
    /\ Truthy(call.backup_path)
    /\ call.cleanup = "done"
    /\ ~backups[call.backup_path].exists

\* C20: a call whose source exists without being a regular file is
\* rejected by the pre-flight checks; the move is not performed.
C20_SourceMustBeRegularFile ==
    (pc # "idle" /\ PreSource.exists /\ ~PreSource.is_file)
        => /\ ~HasStep("move")
           /\ Returned => /\ call.result = "false"
                          /\ call.steps = <<"preflight">>

\* C21: a rollback moves an existing destination back to the source
\* first; the backup is copied over the source only when there was no
\* destination or the move-back returned without leaving the source
\* present and the destination absent; after a move-back that succeeded
\* the backup was not used and the source is present, the destination
\* absent.
C21_RollbackStrategyOrder ==
    [][pc = "rollback"
         => /\ Exists(fs, call.destination) => call'.moved_back # "none"
            /\ ~Exists(fs, call.destination) => call'.moved_back = "none"
            /\ call'.restored
                  => /\ call'.moved_back \in {"none", "not_ok"}
                     /\ BackupUsable(backups, call.backup_path)
            /\ call'.moved_back = "ok"
                  => /\ ~call'.restored
                     /\ call'.rollback = "ok"
                     /\ Exists(fs', call.source)
                     /\ ~Exists(fs', call.destination)]_vars

C21_Witness ==
    /\ Returned
    /\ call.moved_back = "not_ok"
    /\ call.restored
    /\ call.rollback = "ok"

\* C22: on a verifier with enable_rollback False no step of a call
\* writes a backup file or starts a rollback, and a failed verification
\* ends the call with failure, source and destination staying as the
\* move left them.
C22_NoRollbackWhenDisabled ==
    [][~enable_rollback
         => /\ backups' = backups
            /\ ~Truthy(call'.backup_path)
            /\ pc' # "rollback"
            /\ call'.rollback = "none"
            /\ (pc = "verify" /\ call'.verification # "passed")
                  => /\ fs' = fs
                     /\ pc' = "returned"
                     /\ call'.result = "false"]_vars

C22_Witness ==
    /\ Returned
    /\ ~enable_rollback
    /\ call.create_backup
    /\ call.verification = "source_still_exists"
    /\ call.result = "false"
    /\ Exists(fs, call.source)
    /\ Exists(fs, call.destination)

\* C27: a call that passed the pre-flight checks and returns failure
\* leaves no file at the destination (stated for a regular file as source
\* and a verifier with rollback enabled, the default).
C27_NoPartialDestination ==
    (Failed /\ enable_rollback /\ PreSource.is_file
            /\ call.error \notin {"source_not_found", "destination_exists"})
        => ~Exists(fs, call.destination)

\* C28: a call that created a backup and returns failure leaves the
\* backup file in place with the content the source had before the call.
C28_BackupKeptOnFailure ==
    (Failed /\ Truthy(call.backup_path))
        => /\ backups[call.backup_path].exists
           /\ backups[call.backup_path].data = PreSource.data

C28_Witness ==
    /\ Failed
    /\ Truthy(call.backup_path)
    /\ call.rollback = "failed"
    /\ StSize(PreSource) > 0
    /\ backups[call.backup_path] = PreSource

CauseTypes == {"source_not_found", "destination_exists", "move_exception"}
NumFailedRecords ==
    Cardinality({i \in 1..Len(operation_log) : ~operation_log[i].success})
NumCauses ==
    Len(verification_failures)
      + Cardinality({i \in 1..Len(error_log) : error_log[i] \in CauseTypes})

\* C29: the failed operation records are as many as the verification
\* failures plus the error entries of type source_not_found,
\* destination_exists or move_exception, and the report's successful and
\* failed counts add up to the number of operation records.
C29_OneCausePerFailure ==
    LET report == GetVerificationReport(operation_log, error_log,
                                        verification_failures)
    IN  /\ NumFailedRecords = NumCauses
        /\ report.failed = NumFailedRecords
        /\ report.successful + report.failed = Len(operation_log)

C29_Witness ==
    /\ Len(operation_log) = 2
    /\ NumFailedRecords = 2
    /\ Len(verification_failures) = 1
    /\ \E i \in 1..Len(error_log) : error_log[i] = "rollback_failed"
    /\ \E i \in 1..Len(error_log) : error_log[i] = "move_exception"

\* C23: every call of archive_with_verification returns a value: (True,
\* archive path) when the verified move succeeded, which leaves the file
\* at the archive path, and (False, None) in every other case; a call
\* made while the archive path holds an earlier archived file fails and
\* leaves that file as it was.
C23_ArchiveResult ==
    (Ended /\ call.destination = ArchiveDestination("archive", call.source))
        => /\ Returned
           /\ ArchiveReturn(call.result = "true", call.destination)
                 \in {<<TRUE, call.destination>>, <<FALSE, None>>}
           /\ call.result = "true"
                 => /\ Exists(fs, call.destination)
                    /\ ~Exists(fs, call.source)
           /\ call.pre.moved
                 => /\ call.result = "false"
                    /\ DestinationUntouched

\* C24: a call of archive_item that returns True leaves the file at the
\* archive destination only and the Backlog.md link of the item pointing
\* to the archive; one that returns False after the source-exists and
\* destination-free checks passed leaves the file at its source path and
\* nothing at the destination.
C24_ArchiveItemConsistent ==
    [][nruns' = nruns + 1
         => /\ archiver'.result = "true"
                  => /\ Exists(fs', ArchivePath)
                     /\ ~Exists(fs', ItemPath)
                     /\ backlog_file'.row
                     /\ backlog_file'.link = "archive"
            /\ (/\ archiver'.result = "false"
                /\ Exists(fs, ItemPath) /\ ~Exists(fs, ArchivePath))
                  => /\ Exists(fs', ItemPath)
                     /\ ~Exists(fs', ArchivePath)]_vars

\* C25: after n saved runs the log file holds the last min(n, 50) of
\* them, in the order they were saved.
C25_BoundedHistory ==
    LET runs == auto_archive_log.runs
        kept == IF nruns < KeepRuns THEN nruns ELSE KeepRuns
    IN  /\ auto_archive_log.exists <=> nruns > 0
        /\ Len(runs) = kept
        /\ \A i \in 1..Len(runs) : runs[i].timestamp = nruns - kept + i

C25_Witness ==
    /\ nruns = KeepRuns + 2
    /\ Len(auto_archive_log.runs) = KeepRuns
    /\ auto_archive_log.runs[1].timestamp = 3

\* the row of the item in Backlog.md marks it archived: by its Status
\* cell or by a link into the archive
BacklogSaysArchived ==
    /\ backlog_file.exists /\ backlog_file.row
    /\ \/ backlog_file.status = "archived"
       \/ backlog_file.link = "archive"

\* C26: verify_archive_operation sets verification_passed exactly when
\* the backlog marks the item archived and its file is in the archive
\* folder only, or the backlog does not and the file is in the items
\* folder only; a file in both folders gives duplicate_files with an
\* error.
C26_VerificationAgreesWithStatus ==
    [][result' # result
         => /\ result'.verification_passed
                  <=> \/ /\ BacklogSaysArchived
                         /\ InArchiveFolder(fs) /\ ~InItemsFolder(fs)
                      \/ /\ ~BacklogSaysArchived
                         /\ InItemsFolder(fs) /\ ~InArchiveFolder(fs)
            /\ (InItemsFolder(fs) /\ InArchiveFolder(fs))
                  => /\ result'.status = "duplicate_files"
                     /\ result'.errors > 0]_vars

NumFiles(dir) == Cardinality({n \in Names : dir[n] # Absent})

\* C30: when migrate_directory has ended, a dry run has left the
\* directory as it was, and a real run has left as many files as before,
\* the content of every file of before being held by some file.
C30_MigrationLosesNoFile ==
    migrator.pc = "done"
        => IF migrator.dry_run
           THEN directory = migrator.before
           ELSE /\ NumFiles(directory) = NumFiles(migrator.before)
                /\ \A n \in Names :
                      migrator.before[n] # Absent
                         => \E m \in Names : directory[m] = migrator.before[n]

====
